---------------------------- MODULE Spec2Model ----------------------------
(***************************************************************************)
(* Model of the linx weather api (src/api/src): the sol-indexed cache      *)
(* behind a tokio RwLock, the hourly updater task, the /weather handler,   *)
(* the date parser and the Earth-date -> Martian-sol conversion.           *)
(*                                                                         *)
(* Text is modelled as a sequence of one-character strings, so that        *)
(* parsing and formatting are computed character by character.             *)
(* Option<T> is a sequence of length at most one: None == <<>>,            *)
(* Some(v) == <<v>>.  Result<T, E> is a record with the field ok.          *)
(***************************************************************************)
EXTENDS Integers, Sequences, FiniteSets, TLC

(***************************************************************************)
(* Bounds of the model.                                                    *)
(***************************************************************************)
\* Largest number of upstream fetches the updater task starts.
MaxCycles == 2
\* Largest number of records in an answer of the fetch harness.
MaxRecords == 2
\* Half-width of the window of deltas drawn around each sol boundary.
Window == 3

None == << >>
Some(v) == << v >>
Ok(v) == [ok |-> TRUE, val |-> v]
Err(e) == [ok |-> FALSE, err |-> e]

\* body applied to the value of v, which is computed once.
Bind(v, body(_)) == CHOOSE out \in { body(x) : x \in {v} } : TRUE

(***************************************************************************)
(* Numbers in text: str::parse::<i64>, i64::to_string, chrono's scan.      *)
(***************************************************************************)
Digits == {"0", "1", "2", "3", "4", "5", "6", "7", "8", "9"}

DigitValue(c) ==
  CASE c = "0" -> 0 [] c = "1" -> 1 [] c = "2" -> 2 [] c = "3" -> 3
    [] c = "4" -> 4 [] c = "5" -> 5 [] c = "6" -> 6 [] c = "7" -> 7
    [] c = "8" -> 8 [] c = "9" -> 9

DigitChar(d) ==
  CASE d = 0 -> "0" [] d = 1 -> "1" [] d = 2 -> "2" [] d = 3 -> "3"
    [] d = 4 -> "4" [] d = 5 -> "5" [] d = 6 -> "6" [] d = 7 -> "7"
    [] d = 8 -> "8" [] d = 9 -> "9"

\* Number of consecutive digits of s from position pos, at most max.
RECURSIVE CountDigits(_, _, _)
CountDigits(s, pos, max) ==
  IF max = 0 \/ pos > Len(s) \/ s[pos] \notin Digits
    THEN 0
    ELSE 1 + CountDigits(s, pos + 1, max - 1)

\* Value of the n digits of s that start at position pos.
RECURSIVE DigitsValue(_, _, _)
DigitsValue(s, pos, n) ==
  IF n = 0
    THEN 0
    ELSE 10 * DigitsValue(s, pos, n - 1) + DigitValue(s[pos + n - 1])

\* chrono scan::number(s, min, max): between min and max digits at pos.
\* The result's pos is the position after the number.
ScanNumber(s, pos, min, max) ==
  Bind(CountDigits(s, pos, max),
       LAMBDA n :
         IF n < min
           THEN IF pos + n > Len(s) THEN Err("TooShort") ELSE Err("Invalid")
           ELSE [ok |-> TRUE, val |-> DigitsValue(s, pos, n), pos |-> pos + n])

\* str::parse::<i64>(): an optional sign, then one or more digits, nothing else.
ParseI64(s) ==
  Bind(IF Len(s) > 0 /\ s[1] \in {"+", "-"} THEN 2 ELSE 1,
       LAMBDA from :
         Bind(CountDigits(s, from, Len(s)),
              LAMBDA n :
                IF n = 0 \/ from + n # Len(s) + 1
                  THEN None
                  ELSE IF s[1] = "-"
                         THEN Some(0 - DigitsValue(s, from, n))
                         ELSE Some(DigitsValue(s, from, n))))

\* Decimal digits of a natural number.
RECURSIVE NatToString(_)
NatToString(n) ==
  IF n < 10
    THEN << DigitChar(n) >>
    ELSE Append(NatToString(n \div 10), DigitChar(n % 10))

\* i64::to_string().
I64ToString(n) ==
  IF n < 0 THEN << "-" >> \o NatToString(0 - n) ELSE NatToString(n)

(***************************************************************************)
(* Calendar arithmetic of chrono: NaiveDate validity and                   *)
(* DateTime::timestamp().                                                  *)
(***************************************************************************)
IsLeapYear(y) == (y % 4 = 0 /\ y % 100 # 0) \/ y % 400 = 0

DaysInMonth(y, m) ==
  IF m = 2 THEN (IF IsLeapYear(y) THEN 29 ELSE 28)
  ELSE IF m \in {4, 6, 9, 11} THEN 30 ELSE 31

\* NaiveDate::from_ymd_opt: the date exists in the proleptic Gregorian calendar.
ValidDate(y, m, d) ==
  /\ m \in 1..12
  /\ d >= 1
  /\ d <= DaysInMonth(y, m)

\* Days from 1970-01-01 to the civil date y-m-d.
DaysFromCivil(y, m, d) ==
  LET yy  == IF m <= 2 THEN y - 1 ELSE y
      era == yy \div 400
      yoe == yy - era * 400
      mp  == IF m > 2 THEN m - 3 ELSE m + 9
      doy == (153 * mp + 2) \div 5 + d - 1
      doe == yoe * 365 + yoe \div 4 - yoe \div 100 + doy
  IN  era * 146097 + doe - 719468

\* Unix timestamp (seconds) of y-m-d hh:mi:ss at UTC offset off seconds.
Timestamp(y, m, d, hh, mi, ss, off) ==
  DaysFromCivil(y, m, d) * 86400 + hh * 3600 + mi * 60 + ss - off

(***************************************************************************)
(* chrono's item-driven parser, and the two accepted date formats          *)
(* (main.rs:219-220).                                                      *)
(***************************************************************************)
\* The items of a format.
Number(min, max) == [kind |-> "number", min |-> min, max |-> max]
Literal(chars) == [kind |-> "literal", chars |-> chars]
Year == [kind |-> "year"]
Fraction == [kind |-> "fraction"]
Offset == [kind |-> "offset"]

\* "%Y-%m-%d", "%H:%M", and RFC 3339.
DateItems ==
  << Year, Literal({"-"}), Number(1, 2), Literal({"-"}), Number(1, 2) >>
TimeItems == << Number(1, 2), Literal({":"}), Number(1, 2) >>
OffsetItems == << Number(2, 2), Literal({":"}), Number(2, 2) >>
Rfc3339Items ==
  << Number(4, 4), Literal({"-"}), Number(2, 2), Literal({"-"}), Number(2, 2),
     Literal({"T", "t", " "}),
     Number(2, 2), Literal({":"}), Number(2, 2), Literal({":"}), Number(2, 2),
     Fraction, Offset >>

\* The year of "%Y": an explicit sign lifts the four-digit limit.
ScanYear(s, pos) ==
  IF pos <= Len(s) /\ s[pos] = "-"
    THEN Bind(ScanNumber(s, pos + 1, 1, Len(s)),
              LAMBDA r : IF r.ok THEN [r EXCEPT !.val = 0 - r.val] ELSE r)
  ELSE IF pos <= Len(s) /\ s[pos] = "+"
    THEN ScanNumber(s, pos + 1, 1, Len(s))
  ELSE ScanNumber(s, pos, 1, 4)

\* The optional fraction of a second: '.' and one or more digits.
ScanFraction(s, pos) ==
  IF pos <= Len(s) /\ s[pos] = "."
    THEN ScanNumber(s, pos + 1, 1, Len(s))
    ELSE [ok |-> TRUE, val |-> 0, pos |-> pos]

\* One item that is no offset, at position pos.
ScanSimple(s, pos, item) ==
  CASE item.kind = "number"   -> ScanNumber(s, pos, item.min, item.max)
    [] item.kind = "year"     -> ScanYear(s, pos)
    [] item.kind = "fraction" -> ScanFraction(s, pos)
    [] item.kind = "literal"  ->
         IF pos > Len(s) THEN Err("TooShort")
         ELSE IF s[pos] \notin item.chars THEN Err("Invalid")
         ELSE [ok |-> TRUE, val |-> 0, pos |-> pos + 1]

\* The items of a format without offsets, one after the other from pos:
\* the values scanned and the position after them, or the first error.
RECURSIVE ScanSimpleItems(_, _, _, _)
ScanSimpleItems(s, pos, items, vals) ==
  IF items = << >>
    THEN [ok |-> TRUE, val |-> vals, pos |-> pos]
    ELSE Bind(ScanSimple(s, pos, Head(items)),
              LAMBDA r : IF ~r.ok THEN r
                         ELSE ScanSimpleItems(s, r.pos, Tail(items),
                                              Append(vals, r.val)))

\* The offset of RFC 3339: 'Z' or 'z', or a sign, hh, ':' and mm; in seconds.
ScanOffset(s, pos) ==
  IF pos > Len(s) THEN Err("TooShort")
  ELSE IF s[pos] \in {"Z", "z"} THEN [ok |-> TRUE, val |-> 0, pos |-> pos + 1]
  ELSE IF s[pos] \notin {"+", "-"} THEN Err("Invalid")
  ELSE Bind(ScanSimpleItems(s, pos + 1, OffsetItems, << >>),
            LAMBDA r :
              IF ~r.ok THEN r
              ELSE IF r.val[3] > 59 \/ r.val[1] * 3600 + r.val[3] * 60 >= 86400
                THEN Err("OutOfRange")
              ELSE [ok |-> TRUE,
                    val |-> IF s[pos] = "-"
                              THEN 0 - (r.val[1] * 3600 + r.val[3] * 60)
                              ELSE r.val[1] * 3600 + r.val[3] * 60,
                    pos |-> r.pos])

\* One item at position pos.
ScanItem(s, pos, item) ==
  IF item.kind = "offset" THEN ScanOffset(s, pos) ELSE ScanSimple(s, pos, item)

\* The items of a format, one after the other from pos.
RECURSIVE ScanItems(_, _, _, _)
ScanItems(s, pos, items, vals) ==
  IF items = << >>
    THEN [ok |-> TRUE, val |-> vals, pos |-> pos]
    ELSE Bind(ScanItem(s, pos, Head(items)),
              LAMBDA r : IF ~r.ok THEN r
                         ELSE ScanItems(s, r.pos, Tail(items), Append(vals, r.val)))

\* A whole string against a format: nothing may follow the last item.
ParseItems(s, items) ==
  Bind(ScanItems(s, 1, items, << >>),
       LAMBDA r : IF ~r.ok THEN Err(r.err)
                  ELSE IF r.pos <= Len(s) THEN Err("TooLong")
                  ELSE Ok(r.val))

\* NaiveDate::parse_from_str(s, "%Y-%m-%d"): year, '-', month of one or two
\* digits, '-', day of one or two digits; the date must exist.
NaiveDateParse(s) ==
  Bind(ParseItems(s, DateItems),
       LAMBDA r : IF ~r.ok THEN r
                  ELSE IF ~ValidDate(r.val[1], r.val[3], r.val[5])
                    THEN Err("OutOfRange")
                  ELSE Ok([year |-> r.val[1], month |-> r.val[3], day |-> r.val[5]]))

\* DateTime::parse_from_rfc3339(s): yyyy-mm-dd, 'T', 't' or ' ', hh:mm:ss, an
\* optional fraction and an offset.
Rfc3339Parse(s) ==
  Bind(ParseItems(s, Rfc3339Items),
       LAMBDA r : IF ~r.ok THEN r
                  ELSE IF \/ ~ValidDate(r.val[1], r.val[3], r.val[5])
                          \/ r.val[7] > 23 \/ r.val[9] > 59 \/ r.val[11] > 59
                    THEN Err("OutOfRange")
                  ELSE Ok([year |-> r.val[1], month |-> r.val[3], day |-> r.val[5],
                           hour |-> r.val[7], minute |-> r.val[9],
                           second |-> r.val[11], offset |-> r.val[13]]))

\* The error message of parse_date_from_string (main.rs:231-233).
InvalidDateFormat == "Invalid format for date. Allowed formats are %Y-%m-%d and rfc3339."

\* Mutant of MatchParses: the RFC 3339 instant is not converted to UTC.
MatchParsesLocal(naive_date, rfc3339_date) ==
  IF naive_date.ok
    THEN Ok(Timestamp(naive_date.val.year, naive_date.val.month,
                      naive_date.val.day, 0, 0, 0, 0))
  ELSE IF rfc3339_date.ok
    THEN Ok(Timestamp(rfc3339_date.val.year, rfc3339_date.val.month,
                      rfc3339_date.val.day, rfc3339_date.val.hour,
                      rfc3339_date.val.minute, rfc3339_date.val.second, 0))
  ELSE Err(InvalidDateFormat)

\* Mutant of MatchParses: the error of the plain-date parse is returned.
MatchParsesNaiveError(naive_date, rfc3339_date) ==
  IF naive_date.ok
    THEN Ok(Timestamp(naive_date.val.year, naive_date.val.month,
                      naive_date.val.day, 0, 0, 0, 0))
  ELSE IF rfc3339_date.ok
    THEN Ok(Timestamp(rfc3339_date.val.year, rfc3339_date.val.month,
                      rfc3339_date.val.day, rfc3339_date.val.hour,
                      rfc3339_date.val.minute, rfc3339_date.val.second,
                      rfc3339_date.val.offset))
  ELSE Err(naive_date.err)

\* The match of parse_date_from_string on the two parses, in order: the plain
\* date first (midnight UTC), then the RFC 3339 instant (to UTC).
\* A DateTime<Utc> is modelled by its Unix timestamp in seconds.
MatchParses(naive_date, rfc3339_date) ==
  IF naive_date.ok
    THEN Ok(Timestamp(naive_date.val.year, naive_date.val.month,
                      naive_date.val.day, 0, 0, 0, 0))
  ELSE IF rfc3339_date.ok
    THEN Ok(Timestamp(rfc3339_date.val.year, rfc3339_date.val.month,
                      rfc3339_date.val.day, rfc3339_date.val.hour,
                      rfc3339_date.val.minute, rfc3339_date.val.second,
                      rfc3339_date.val.offset))
  ELSE Err(InvalidDateFormat)

\* parse_date_from_string: both parses are made, then matched.
parse_date_from_string(maybe_date) ==
  Bind(<< NaiveDateParse(maybe_date), Rfc3339Parse(maybe_date) >>,
       LAMBDA parses : MatchParses(parses[1], parses[2]))

\* The tracing::error! of the match's last arm: both parse errors are
\* logged when neither parse succeeded, and nothing otherwise.
LogParses(naive_date, rfc3339_date) ==
  IF ~naive_date.ok /\ ~rfc3339_date.ok
    THEN Some([naive_date_err |-> naive_date.err,
               rfc3339_date_err |-> rfc3339_date.err])
    ELSE None

\* What parse_date_from_string logs as an error on maybe_date.
parse_date_log(maybe_date) ==
  Bind(<< NaiveDateParse(maybe_date), Rfc3339Parse(maybe_date) >>,
       LAMBDA parses : LogParses(parses[1], parses[2]))

(***************************************************************************)
(* conversion.rs: Earth timestamp -> Martian sol.                          *)
(***************************************************************************)
\* 2012-08-06 05:17:00 UTC
CURIOSTY_LANDING_DATE_IN_UNIX_TS == 1344230220

\* The divisor 88775.245 (seconds per sol), as whole seconds and thousandths.
SolSeconds == 88775
SolMillis == 245

\* k * 88775.245 >= diff, in integers: diff is whole, so the product may be
\* rounded down before the comparison.
SolsCover(k, diff) == k * SolSeconds + (k * SolMillis) \div 1000 >= diff

\* Mutant of CeilSols: the quotient rounded down.
FloorSols(diff) ==
  Bind(diff \div SolSeconds,
       LAMBDA a : CHOOSE k \in (a - 2)..(a + 2) :
                    SolsCover(k + 1, diff) /\ ~SolsCover(k, diff))

\* Mutant of CeilSols: a negative quotient is rounded away from zero.
AwayFromZeroSols(diff) ==
  Bind(diff \div SolSeconds,
       LAMBDA a : CHOOSE k \in (a - 2)..(a + 2) :
                    IF diff < 0
                      THEN SolsCover(k + 1, diff) /\ ~SolsCover(k, diff)
                      ELSE SolsCover(k, diff) /\ ~SolsCover(k - 1, diff))

\* (diff / 88775.245).ceil(): the least k with k * 88775.245 >= diff.  The
\* f64 quotient of the code has the same ceiling as the exact quotient for
\* every diff of 32 bits (the only exact integer quotient is at multiples of
\* 17755049 s, which f64 division returns exactly).
CeilSols(diff) ==
  Bind(diff \div SolSeconds,
       LAMBDA a : CHOOSE k \in (a - 2)..(a + 2) :
                    SolsCover(k, diff) /\ ~SolsCover(k - 1, diff))

\* calculate_no_of_martian_sol_elapsed(datetime), datetime as a Unix timestamp.
calculate_no_of_martian_sol_elapsed(datetime) ==
  Bind(datetime - CURIOSTY_LANDING_DATE_IN_UNIX_TS, LAMBDA diff : CeilSols(diff))

(***************************************************************************)
(* deserializers.rs and the serde-derived Deserialize of SoleData.         *)
(* A raw upstream record is a function from the names of the JSON fields   *)
(* it holds to their strings; an absent field is absent from its domain.   *)
(***************************************************************************)
\* String::deserialize(deserializer)?: the field must be there.
StringDeserialize(raw, field) ==
  IF field \in DOMAIN raw THEN Ok(raw[field]) ELSE Err("missing field")

\* i64_from_string: Ok(s.parse::<i64>().ok()).
i64_from_string(raw, field) ==
  IF field \in DOMAIN raw THEN Ok(ParseI64(raw[field])) ELSE Err("missing field")

\* sole_from_string: s.parse::<i64>().map_err(custom)?.
sole_from_string(raw, field) ==
  IF field \notin DOMAIN raw THEN Err("missing field")
  ELSE Bind(ParseI64(raw[field]),
            LAMBDA sol : IF sol = None THEN Err("invalid digit found in string")
                         ELSE Ok(sol[1]))

\* naivedate_from_string: NaiveDate::parse_from_str(&s, "%Y-%m-%d").
naivedate_from_string(raw, field) ==
  IF field \in DOMAIN raw THEN NaiveDateParse(raw[field]) ELSE Err("missing field")

\* NaiveTime::parse_from_str(s, "%H:%M"): hour and minute of one or two
\* digits each.
NaiveTimeParse(s) ==
  Bind(ParseItems(s, TimeItems),
       LAMBDA r : IF ~r.ok THEN r
                  ELSE IF r.val[1] > 23 \/ r.val[3] > 59 THEN Err("OutOfRange")
                  ELSE Ok([hour |-> r.val[1], minute |-> r.val[3], second |-> 0]))

\* naivetime_from_string.
naivetime_from_string(raw, field) ==
  IF field \in DOMAIN raw THEN NaiveTimeParse(raw[field]) ELSE Err("missing field")

\* The first error among the results of the fields, or the record.
SoleDataOf(f) ==
  IF \E i \in 1..Len(f) : ~f[i].ok
    THEN Err(f[CHOOSE i \in 1..Len(f) : ~f[i].ok /\ \A j \in 1..(i - 1) : f[j].ok].err)
    ELSE Ok([id |-> f[1].val, terrestrial_date |-> f[2].val, sol |-> f[3].val,
             min_temp |-> f[4].val, max_temp |-> f[5].val,
             sunrise |-> f[6].val, sunset |-> f[7].val])

\* #[derive(Deserialize)] of SoleData: every field through its deserializer,
\* the first error fails the record.
DeserializeSoleData(raw) ==
  Bind(<< StringDeserialize(raw, "id"),
          naivedate_from_string(raw, "terrestrial_date"),
          sole_from_string(raw, "sol"),
          i64_from_string(raw, "min_temp"),
          i64_from_string(raw, "max_temp"),
          naivetime_from_string(raw, "sunrise"),
          naivetime_from_string(raw, "sunset") >>,
       LAMBDA fields : SoleDataOf(fields))

\* res.json::<NasaData>(): the records of "soles", or the first error.
RECURSIVE DeserializeSoles(_)
DeserializeSoles(soles) ==
  IF soles = << >> THEN Ok(<< >>)
  ELSE Bind(DeserializeSoleData(Head(soles)),
            LAMBDA head :
              IF ~head.ok THEN head
              ELSE Bind(DeserializeSoles(Tail(soles)),
                        LAMBDA tail : IF ~tail.ok THEN tail
                                      ELSE Ok(<< head.val >> \o tail.val)))

\* HashMap::new().
EmptyMap == [s \in {} |-> None]

\* Mutant of Insert: an entry the key already has is kept.
InsertIfAbsent(acc, key, value) ==
  [k \in DOMAIN acc \cup {key} |-> IF k \in DOMAIN acc THEN acc[k] ELSE value]

\* acc.insert(sole.sol.clone(), sole): the entry of the key is replaced.
Insert(acc, key, value) ==
  [k \in DOMAIN acc \cup {key} |-> IF k = key THEN value ELSE acc[k]]

\* Mutant of FoldSoles: the records are keyed by the day of their date.
RECURSIVE FoldSolesByDay(_, _)
FoldSolesByDay(acc, soles) ==
  IF soles = << >>
    THEN acc
    ELSE Bind(Insert(acc, Head(soles).terrestrial_date.day, Head(soles)),
              LAMBDA next : FoldSolesByDay(next, Tail(soles)))

\* soles.into_iter().fold(HashMap::new(), |acc, sole| insert): from the left.
RECURSIVE FoldSoles(_, _)
FoldSoles(acc, soles) ==
  IF soles = << >>
    THEN acc
    ELSE Bind(Insert(acc, Head(soles).sol, Head(soles)),
              LAMBDA next : FoldSoles(next, Tail(soles)))

\* fetch_soles_data() on an upstream response: a transport error of
\* reqwest::get, a body that does not deserialize, or the map by sol.
fetch_soles_data(response) ==
  IF ~response.sent THEN Err("error sending request")
  ELSE Bind(DeserializeSoles(response.soles),
            LAMBDA soles : IF ~soles.ok THEN soles
                           ELSE Ok(FoldSoles(EmptyMap, soles.val)))

(***************************************************************************)
(* Sample inputs: upstream responses and request dates.                    *)
(***************************************************************************)
Rec100 ==
  [id |-> << "3" >>,
   terrestrial_date |-> << "2", "0", "1", "2", "-", "1", "1", "-", "1", "6" >>,
   sol |-> << "1", "0", "0" >>,
   min_temp |-> << "-", "7", "5" >>,
   max_temp |-> << "-", "1", "0" >>,
   sunrise |-> << "0", "5", ":", "2", "5" >>,
   sunset |-> << "1", "7", ":", "2", "0" >>]

\* "--" is what the feed sends for a temperature it does not have.
Rec101 ==
  [id |-> << "4" >>,
   terrestrial_date |-> << "2", "0", "1", "2", "-", "1", "1", "-", "1", "7" >>,
   sol |-> << "1", "0", "1" >>,
   min_temp |-> << "-", "-" >>,
   max_temp |-> << "-", "8" >>,
   sunrise |-> << "0", "5", ":", "2", "6" >>,
   sunset |-> << "1", "7", ":", "2", "0" >>]

Rec101Later ==
  [id |-> << "9" >>,
   terrestrial_date |-> << "2", "0", "1", "2", "-", "1", "1", "-", "1", "7" >>,
   sol |-> << "1", "0", "1" >>,
   min_temp |-> << "-", "7", "0" >>,
   max_temp |-> << "0" >>,
   sunrise |-> << "0", "5", ":", "2", "6" >>,
   sunset |-> << "1", "7", ":", "2", "1" >>]

Rec102 ==
  [id |-> << "5" >>,
   terrestrial_date |-> << "2", "0", "1", "2", "-", "1", "1", "-", "1", "8" >>,
   sol |-> << "1", "0", "2" >>,
   min_temp |-> << "-", "7", "1" >>,
   max_temp |-> <<  >>,
   sunrise |-> << "0", "5", ":", "2", "6" >>,
   sunset |-> << "1", "7", ":", "2", "1" >>]

RecBadSol ==
  [id |-> << "6" >>,
   terrestrial_date |-> << "2", "0", "1", "2", "-", "1", "1", "-", "1", "9" >>,
   sol |-> << "1", "o", "3" >>,
   min_temp |-> << "-", "7", "1" >>,
   max_temp |-> << "-", "3" >>,
   sunrise |-> << "0", "5", ":", "2", "7" >>,
   sunset |-> << "1", "7", ":", "2", "1" >>]

RecNoMin ==
  [id |-> << "7" >>,
   terrestrial_date |-> << "2", "0", "1", "2", "-", "1", "1", "-", "2", "0" >>,
   sol |-> << "1", "0", "4" >>,
   max_temp |-> << "-", "3" >>,
   sunrise |-> << "0", "5", ":", "2", "7" >>,
   sunset |-> << "1", "7", ":", "2", "1" >>]

\* reqwest::get fails: no answer of the feed.
NoAnswer == [sent |-> FALSE, soles |-> << >>]

\* What the upstream feed may answer to one reqwest::get.
Response100And101 == [sent |-> TRUE, soles |-> << Rec100, Rec101 >>]
Response101And102 == [sent |-> TRUE, soles |-> << Rec101, Rec102, Rec101Later >>]

UpstreamResponses ==
  { Response100And101,
    Response101And102,
    [sent |-> TRUE,  soles |-> << Rec100, RecBadSol >>],
    [sent |-> TRUE,  soles |-> << RecNoMin >>],
    NoAnswer }

\* Dates of requests: sols 100, 101 and 999, a string of neither format, the
\* examples of the usage text and of the conversion's test, and edge cases.
DateSol100 == << "2", "0", "1", "2", "-", "1", "1", "-", "1", "6" >>
DateSol101 == << "2", "0", "1", "2", "-", "1", "1", "-", "1", "7" >>
DateSol999 == << "2", "0", "1", "5", "-", "0", "5", "-", "2", "9" >>
DateSlashes == << "1", "5", "/", "0", "2", "/", "2", "0", "2", "6" >>
DatePlain == << "2", "0", "2", "6", "-", "0", "2", "-", "1", "5" >>
DateZulu == << "2", "0", "2", "6", "-", "0", "2", "-", "1", "5", "T", "2", "0", ":", "4", "2", ":", "0", "0", "Z" >>
DateOffset == << "2", "0", "2", "6", "-", "0", "2", "-", "1", "5", "T", "2", "1", ":", "4", "2", ":", "0", "0", "+", "0", "1", ":", "0", "0" >>
DateNewest == << "2", "0", "2", "6", "-", "0", "2", "-", "1", "0", "T", "0", "0", ":", "0", "0", ":", "0", "0", "+", "0", "1", ":", "0", "0" >>
DateLanding == << "2", "0", "1", "2", "-", "0", "8", "-", "0", "6", "T", "0", "5", ":", "1", "7", ":", "0", "0", "Z" >>
DateBeforeLanding == << "2", "0", "1", "2", "-", "0", "8", "-", "0", "5" >>
DateNoSuchDay == << "2", "0", "2", "6", "-", "0", "2", "-", "3", "0" >>
DateNoOffset == << "2", "0", "2", "6", "-", "0", "2", "-", "1", "5", "T", "2", "0", ":", "4", "2", ":", "0", "0" >>
DateSol101West == << "2", "0", "1", "2", "-", "1", "1", "-", "1", "6", "T", "2", "1", ":", "0", "0", ":", "0", "0", "-", "0", "3", ":", "0", "0" >>
DateShortFields == << "2", "0", "1", "2", "-", "1", "1", "-", "7" >>
DateEmpty == << >>

\* The date parameter of a request: absent, or one of the strings.
CoreDates == { Some(DateSol100), Some(DateSol101), Some(DateSlashes) }

AllDates ==
  CoreDates \cup
  { None, Some(DateSol999), Some(DatePlain), Some(DateZulu), Some(DateOffset), Some(DateNewest),
    Some(DateLanding), Some(DateBeforeLanding), Some(DateNoSuchDay),
    Some(DateNoOffset), Some(DateSol101West), Some(DateShortFields),
    Some(DateEmpty) }

\* The request handlers that run at once.
Handlers == {"h1", "h2"}
QueryHandlers == {"h1"}

(***************************************************************************)
(* State.                                                                  *)
(***************************************************************************)
VARIABLES
  mainPc,    \* main: "boot", "serving", "failed" (initial fetch failed), "stopped"
  cache,     \* InnerCachedSolesData: [updated_at, data]
  lock,      \* the tokio RwLock around it: [writer, readers]
  now,       \* the next reading of chrono::Utc::now(): readings are counted
  updater,   \* the updater task: [pc, data, stamp]
  cycles,    \* number of fetches the updater task has started
  lastLog,   \* the last line the updater task logged
  handlers,  \* per request handler: [pc, date, datetime, sol, response],
             \* logged, the parse errors it wrote to the log, and
             \* history: seen, the cycle whose map its lookup read, and
             \* floor, the newest cycle of which, when the request came,
             \* update had returned or a lookup had read the map
  gen,       \* history: the cycle that wrote cache.data and cache.updated_at
  fetched,   \* history: the map each successful fetch returned, by cycle
  observed,  \* history: the newest cycle whose map a lookup has read
  convArg,   \* conversion harness: the delta in seconds
  convRes,   \* conversion harness: the sol computed for it, or None
  fetchArg,  \* fetch harness: the answer of the upstream feed
  fetchRes   \* fetch harness: the result of fetch_soles_data on it, or None

vars == << mainPc, cache, lock, now, updater, cycles, lastLog, handlers, gen,
           fetched, observed, convArg, convRes, fetchArg, fetchRes >>

serviceVars == << mainPc, cache, lock, now, updater, cycles, lastLog, handlers,
                  gen, fetched, observed >>

LogUpdating == "Updating soles data..."
LogUpdated == "Updated soles data!"
LogUnableToFetch == "Unable to fetch soles data. Trying again in 1 hour."

NoResponse == [status |-> 0]

IdleHandler == [pc |-> "idle", date |-> None, datetime |-> None, sol |-> 0,
                seen |-> 0, floor |-> 0, logged |-> None,
                response |-> NoResponse]

IdleUpdater == [pc |-> "unspawned", data |-> EmptyMap, stamp |-> 0]

\* The deltas of the conversion harness: a window around the boundary of
\* each sampled sol, and the deltas the tests name.
SolSamples == {-2, -1, 0, 1, 2, 100, 200, 669, 4804}

Deltas ==
  { k * SolSeconds + (k * SolMillis) \div 1000 + w :
      k \in SolSamples, w \in (0 - Window)..Window }
  \cup { 687 * 86400, 426447780 }

Init ==
  /\ mainPc = "boot"
  /\ cache = [updated_at |-> 0, data |-> EmptyMap]
  /\ lock = [writer |-> FALSE, readers |-> 0]
  /\ now = 0
  /\ updater = IdleUpdater
  /\ cycles = 0
  /\ lastLog = ""
  /\ handlers = [h \in Handlers |-> IdleHandler]
  /\ gen = [data |-> 0, stamp |-> 0]
  /\ fetched = EmptyMap
  /\ observed = 0
  /\ convArg = 0
  /\ convRes = None
  /\ fetchArg = NoAnswer
  /\ fetchRes = None

(***************************************************************************)
(* The RwLock.  tokio's lock is write-preferring: a reader that arrives    *)
(* while a writer waits queues behind it.                                  *)
(***************************************************************************)
WriterWaits == updater.pc \in {"w1", "w2"}

\* Mutant of CanRead: a reader is admitted while the writer holds the lock.
CanReadBesideWriter == ~WriterWaits

\* self.0.read() is granted at once.
CanRead == ~lock.writer /\ ~WriterWaits

\* self.0.write() is granted at once.
CanWrite == ~lock.writer /\ lock.readers = 0

(***************************************************************************)
(* main (main.rs:84-142).                                                  *)
(***************************************************************************)
\* CachedSolesData::new(data).
NewCache(data) == [updated_at |-> now, data |-> data]

\* fetch_soles_data() for each answer of the upstream feed.
FetchResult == [response \in UpstreamResponses |-> fetch_soles_data(response)]

\* The initial fetch succeeds: the cache is built, the updater task and the
\* server are spawned.
BootOk(response) ==
  LET soles_data == FetchResult[response] IN
  /\ mainPc = "boot"
  /\ soles_data.ok
  /\ cache' = NewCache(soles_data.val)
  /\ now' = now + 1
  /\ fetched' = Insert(fetched, 0, soles_data.val)
  /\ updater' = [updater EXCEPT !.pc = "sleep"]
  /\ mainPc' = "serving"
  /\ UNCHANGED << lock, cycles, lastLog, handlers, gen, convArg, convRes, fetchArg, fetchRes, observed >>

\* Mutant of BootFail: the error of the initial fetch is swallowed and the
\* service starts on an empty cache.
BootFailServing(response) ==
  /\ mainPc = "boot"
  /\ ~FetchResult[response].ok
  /\ mainPc' = "serving"
  /\ updater' = [updater EXCEPT !.pc = "sleep"]
  /\ UNCHANGED << cache, lock, now, cycles, lastLog, handlers, gen, fetched,
                  convArg, convRes, fetchArg, fetchRes, observed >>

\* The initial fetch fails: main returns the error through `?`.
BootFail(response) ==
  /\ mainPc = "boot"
  /\ ~FetchResult[response].ok
  /\ mainPc' = "failed"
  /\ UNCHANGED << cache, lock, now, updater, cycles, lastLog, handlers, gen,
                  fetched, convArg, convRes, fetchArg, fetchRes, observed >>

\* Mutant of Shutdown: the updater task is left running.
ShutdownLeavingUpdater ==
  /\ mainPc = "serving"
  /\ mainPc' = "stopped"
  /\ UNCHANGED << cache, lock, now, updater, cycles, lastLog, handlers, gen,
                  fetched, convArg, convRes, fetchArg, fetchRes, observed >>

\* ctrl_c() returns: updater_handle.abort(), server_handle.abort(), and main
\* returns, which drops the runtime.  A task suspended at an await is
\* dropped there; a task in the middle of a poll runs on to its next
\* suspension.
Shutdown ==
  /\ mainPc = "serving"
  /\ mainPc' = "stopped"
  /\ updater' = IF updater.pc \in {"sleep", "fetch", "w1", "w2"}
                  THEN [updater EXCEPT !.pc = "aborted"]
                  ELSE updater
  /\ UNCHANGED << cache, lock, now, cycles, lastLog, handlers, gen, fetched,
                  convArg, convRes, fetchArg, fetchRes, observed >>

(***************************************************************************)
(* The updater task (main.rs:97-113) and CachedSolesData::update.          *)
(***************************************************************************)
\* Mutant of Wake: the write lock is taken before the fetch.
WakeLocking ==
  /\ mainPc = "serving"
  /\ updater.pc = "sleep"
  /\ cycles < MaxCycles
  /\ CanWrite
  /\ cycles' = cycles + 1
  /\ updater' = [updater EXCEPT !.pc = "fetch"]
  /\ lock' = [lock EXCEPT !.writer = TRUE]
  /\ lastLog' = LogUpdating
  /\ UNCHANGED << mainPc, cache, now, handlers, gen, fetched, convArg,
                  convRes, fetchArg, fetchRes, observed >>

\* tokio::time::sleep(1 hour) elapses.
Wake ==
  /\ mainPc = "serving"
  /\ updater.pc = "sleep"
  /\ cycles < MaxCycles
  /\ cycles' = cycles + 1
  /\ updater' = [updater EXCEPT !.pc = "fetch"]
  /\ lastLog' = LogUpdating
  /\ UNCHANGED << mainPc, cache, lock, now, handlers, gen, fetched, convArg,
                  convRes, fetchArg, fetchRes, observed >>

\* Ok(data): update(data) is called and polls its first self.0.write().
FetchOk(response) ==
  LET fetch == FetchResult[response] IN
  /\ mainPc = "serving"
  /\ updater.pc = "fetch"
  /\ fetch.ok
  /\ fetched' = Insert(fetched, cycles, fetch.val)
  /\ updater' = [updater EXCEPT !.pc = IF CanWrite THEN "w1held" ELSE "w1",
                                !.data = fetch.val]
  /\ lock' = IF CanWrite THEN [lock EXCEPT !.writer = TRUE] ELSE lock
  /\ UNCHANGED << mainPc, cache, now, cycles, lastLog, handlers, gen, convArg,
                  convRes, fetchArg, fetchRes, observed >>

\* Mutant of FetchErr: a failed fetch empties the cache.
FetchErrClearing(response) ==
  /\ mainPc = "serving"
  /\ updater.pc = "fetch"
  /\ ~FetchResult[response].ok
  /\ lastLog' = LogUnableToFetch
  /\ cache' = [cache EXCEPT !.data = EmptyMap]
  /\ updater' = [updater EXCEPT !.pc = "sleep"]
  /\ UNCHANGED << mainPc, lock, now, cycles, handlers, gen, fetched, convArg,
                  convRes, fetchArg, fetchRes, observed >>

\* Mutant of FetchErr: a failed fetch ends the updater task.
FetchErrStopping(response) ==
  /\ mainPc = "serving"
  /\ updater.pc = "fetch"
  /\ ~FetchResult[response].ok
  /\ lastLog' = LogUnableToFetch
  /\ updater' = [updater EXCEPT !.pc = "aborted"]
  /\ UNCHANGED << mainPc, cache, lock, now, cycles, handlers, gen, fetched,
                  convArg, convRes, fetchArg, fetchRes, observed >>

\* Err(err): the error is logged and the loop goes back to sleep.
FetchErr(response) ==
  /\ mainPc = "serving"
  /\ updater.pc = "fetch"
  /\ ~FetchResult[response].ok
  /\ lastLog' = LogUnableToFetch
  /\ updater' = [updater EXCEPT !.pc = "sleep"]
  /\ UNCHANGED << mainPc, cache, lock, now, cycles, handlers, gen, fetched,
                  convArg, convRes, fetchArg, fetchRes, observed >>

\* The first self.0.write() is granted after a wait.
WriteLockData ==
  /\ mainPc = "serving"
  /\ updater.pc = "w1"
  /\ CanWrite
  /\ lock' = [lock EXCEPT !.writer = TRUE]
  /\ updater' = [updater EXCEPT !.pc = "w1held"]
  /\ UNCHANGED << mainPc, cache, now, cycles, lastLog, handlers, gen, fetched,
                  convArg, convRes, fetchArg, fetchRes, observed >>

\* Mutant of StoreData: the new entries are merged into the old map.
StoreDataMerging ==
  /\ updater.pc = "w1held"
  /\ cache' = [cache EXCEPT !.data =
                 [k \in DOMAIN cache.data \cup DOMAIN updater.data |->
                    IF k \in DOMAIN updater.data THEN updater.data[k]
                    ELSE cache.data[k]]]
  /\ gen' = [gen EXCEPT !.data = cycles]
  /\ lock' = [lock EXCEPT !.writer = FALSE]
  /\ updater' = [updater EXCEPT !.pc = "now", !.data = EmptyMap]
  /\ UNCHANGED << mainPc, now, cycles, lastLog, handlers, fetched, convArg,
                  convRes, fetchArg, fetchRes, observed >>

\* Mutant of StoreData: the write guard is kept in a variable and lives on
\* to the end of update.
StoreDataKeepingGuard ==
  /\ updater.pc = "w1held"
  /\ cache' = [cache EXCEPT !.data = updater.data]
  /\ gen' = [gen EXCEPT !.data = cycles]
  /\ updater' = [updater EXCEPT !.pc = "now", !.data = EmptyMap]
  /\ UNCHANGED << mainPc, lock, now, cycles, lastLog, handlers, fetched,
                  observed, convArg, convRes, fetchArg, fetchRes >>

\* self.0.write().await.data = data; the guard is dropped with the statement.
StoreData ==
  /\ updater.pc = "w1held"
  /\ cache' = [cache EXCEPT !.data = updater.data]
  /\ gen' = [gen EXCEPT !.data = cycles]
  /\ lock' = [lock EXCEPT !.writer = FALSE]
  /\ updater' = [updater EXCEPT !.pc = "now", !.data = EmptyMap]
  /\ UNCHANGED << mainPc, now, cycles, lastLog, handlers, fetched, convArg,
                  convRes, fetchArg, fetchRes, observed >>

\* The second statement of update: chrono::Utc::now() is evaluated first,
\* then the second self.0.write() is polled.
UpdateNow ==
  /\ updater.pc = "now"
  /\ updater' = [updater EXCEPT
                   !.stamp = now,
                   !.pc = IF CanWrite THEN "w2held"
                          ELSE IF mainPc = "stopped" THEN "aborted" ELSE "w2"]
  /\ now' = now + 1
  /\ lock' = IF CanWrite THEN [lock EXCEPT !.writer = TRUE] ELSE lock
  /\ UNCHANGED << mainPc, cache, cycles, lastLog, handlers, gen, fetched,
                  convArg, convRes, fetchArg, fetchRes, observed >>

\* The second self.0.write() is granted after a wait.
WriteLockStamp ==
  /\ mainPc = "serving"
  /\ updater.pc = "w2"
  /\ CanWrite
  /\ lock' = [lock EXCEPT !.writer = TRUE]
  /\ updater' = [updater EXCEPT !.pc = "w2held"]
  /\ UNCHANGED << mainPc, cache, now, cycles, lastLog, handlers, gen, fetched,
                  convArg, convRes, fetchArg, fetchRes, observed >>

\* self.0.write().await.updated_at = <now>; update returns, "Updated soles
\* data!" is logged and the loop sleeps again.
StoreStamp ==
  /\ updater.pc = "w2held"
  /\ cache' = [cache EXCEPT !.updated_at = updater.stamp]
  /\ gen' = [gen EXCEPT !.stamp = cycles]
  /\ lock' = [lock EXCEPT !.writer = FALSE]
  /\ lastLog' = LogUpdated
  /\ updater' = [updater EXCEPT
                   !.pc = IF mainPc = "stopped" THEN "aborted" ELSE "sleep"]
  /\ UNCHANGED << mainPc, now, cycles, handlers, fetched, convArg, convRes, fetchArg, fetchRes, observed >>

(***************************************************************************)
(* The /weather handler (main.rs:164-215) and get_data_for_sol.            *)
(***************************************************************************)
\* Mutant of get_data_for_sol: the entry of the sol before.
get_data_for_sol_before(data, sol) ==
  IF sol - 1 \in DOMAIN data THEN Some(data[sol - 1]) ELSE None

\* data.get(&sol.into()).cloned().
get_data_for_sol(data, sol) ==
  IF sol \in DOMAIN data THEN Some(data[sol]) ELSE None

NotAvailable == << "N", "/", "A" >>

\* temp.map(|temp| temp.to_string()).unwrap_or("N/A".to_string()).
RenderTemp(temp) ==
  IF temp = None THEN NotAvailable ELSE I64ToString(temp[1])

\* Two digits of a field of a time of day.
Pad2(n) == << DigitChar(n \div 10), DigitChar(n % 10) >>

\* Serialize of NaiveTime: hh:mm:ss.
RenderTime(t) ==
  Pad2(t.hour) \o << ":" >> \o Pad2(t.minute) \o << ":" >> \o Pad2(t.second)

UsageMessage == "Send request with query parameter ?date=<requested date>. Allowed formats are %Y-%m-%d and rfc3339."

\* The else arm: no date parameter.
UsageResponse == [status |-> 200, body |-> [message |-> UsageMessage]]

\* The Err arm of the parse.
BadRequest(err) ==
  [status |-> 400, body |-> [error |-> "INVALID_DATE_FORMAT", message |-> err]]

\* The None arm of the lookup.
NoContent == [status |-> 204, body |-> [message |-> "No data found for date"]]

\* The Some arm of the lookup.
Found(data) ==
  [status |-> 200,
   body |-> [martian_sol_day |-> I64ToString(data.sol),
             min_temp |-> RenderTemp(data.min_temp),
             max_temp |-> RenderTemp(data.max_temp),
             sunrise |-> RenderTime(data.sunrise),
             sunset |-> RenderTime(data.sunset)]]

\* Mutant of WeatherBegin: a date that does not parse is looked up as sol 0.
WeatherBeginLenient(date) ==
  IF date = None
    THEN [done |-> TRUE, datetime |-> None, sol |-> 0, response |-> UsageResponse]
    ELSE Bind(parse_date_from_string(date[1]),
              LAMBDA datetime :
                IF ~datetime.ok
                  THEN [done |-> FALSE, datetime |-> None, sol |-> 0,
                        response |-> NoResponse]
                  ELSE [done |-> FALSE, datetime |-> Some(datetime.val),
                        sol |-> calculate_no_of_martian_sol_elapsed(datetime.val),
                        response |-> NoResponse])

\* weather up to its only await: the response when there is no lookup to
\* make, or the sol to look up.
WeatherBegin(date) ==
  IF date = None
    THEN [done |-> TRUE, datetime |-> None, sol |-> 0, response |-> UsageResponse]
    ELSE Bind(parse_date_from_string(date[1]),
              LAMBDA datetime :
                IF ~datetime.ok
                  THEN [done |-> TRUE, datetime |-> None, sol |-> 0,
                        response |-> BadRequest(datetime.err)]
                  ELSE [done |-> FALSE, datetime |-> Some(datetime.val),
                        sol |-> calculate_no_of_martian_sol_elapsed(datetime.val),
                        response |-> NoResponse])

\* weather after the lookup.
WeatherEnd(found) ==
  IF found = None THEN NoContent ELSE Found(found[1])

\* WeatherBegin for each date a request may carry.
WeatherBegun == [date \in AllDates |-> WeatherBegin(date)]

\* The parse errors logged for each date a request may carry.
ParseLogged ==
  [date \in AllDates |-> IF date = None THEN None ELSE parse_date_log(date[1])]

\* A request reaches handler h, which runs to the poll of self.0.read().
Request(h, date) ==
  LET begin == WeatherBegun[date] IN
  /\ mainPc = "serving"
  /\ handlers[h].pc \in {"idle", "done"}
  /\ handlers' =
       [handlers EXCEPT ![h] =
          [pc |-> IF begin.done THEN "done"
                  ELSE IF CanRead THEN "reading" ELSE "get",
           date |-> date, datetime |-> begin.datetime, sol |-> begin.sol,
           seen |-> 0,
           floor |-> IF gen.stamp > observed THEN gen.stamp ELSE observed,
           logged |-> ParseLogged[date],
           response |-> begin.response]]
  /\ lock' = IF ~begin.done /\ CanRead
               THEN [lock EXCEPT !.readers = @ + 1]
               ELSE lock
  /\ UNCHANGED << mainPc, cache, now, updater, cycles, lastLog, gen, fetched,
                  convArg, convRes, fetchArg, fetchRes, observed >>

\* self.0.read() is granted after a wait.
ReadLock(h) ==
  /\ mainPc = "serving"
  /\ handlers[h].pc = "get"
  /\ CanRead
  /\ lock' = [lock EXCEPT !.readers = @ + 1]
  /\ handlers' = [handlers EXCEPT ![h].pc = "reading"]
  /\ UNCHANGED << mainPc, cache, now, updater, cycles, lastLog, gen, fetched,
                  convArg, convRes, fetchArg, fetchRes, observed >>

\* Mutant of GetData: the handlers look up a copy of the map made at
\* startup, not the shared one.
GetDataOfCopy(h) ==
  /\ handlers[h].pc = "reading"
  /\ lock' = [lock EXCEPT !.readers = @ - 1]
  /\ handlers' =
       [handlers EXCEPT
          ![h].pc = "done",
          ![h].seen = 0,
          ![h].response = WeatherEnd(get_data_for_sol(fetched[0], handlers[h].sol))]
  /\ UNCHANGED << mainPc, cache, now, updater, cycles, lastLog, gen, fetched,
                  observed, convArg, convRes, fetchArg, fetchRes >>

\* The lookup under the read guard, the guard's drop and the response.
GetData(h) ==
  /\ handlers[h].pc = "reading"
  /\ lock' = [lock EXCEPT !.readers = @ - 1]
  /\ handlers' =
       [handlers EXCEPT
          ![h].pc = "done",
          ![h].seen = gen.data,
          ![h].response = WeatherEnd(get_data_for_sol(cache.data, handlers[h].sol))]
  /\ observed' = IF gen.data > observed THEN gen.data ELSE observed
  /\ UNCHANGED << mainPc, cache, now, updater, cycles, lastLog, gen, fetched,
                  convArg, convRes, fetchArg, fetchRes >>

(***************************************************************************)
(* Specifications.                                                         *)
(***************************************************************************)
\* The service with the handlers of H, whose requests carry the dates of D,
\* the feed answering with the responses of R.
ServiceNext(H, D, R) ==
  \/ \E response \in R : BootOk(response)
  \/ \E response \in R : BootFail(response)
  \/ Shutdown
  \/ Wake
  \/ \E response \in R : FetchOk(response)
  \/ \E response \in R : FetchErr(response)
  \/ WriteLockData
  \/ StoreData
  \/ UpdateNow
  \/ WriteLockStamp
  \/ StoreStamp
  \/ \E h \in H, date \in D : Request(h, date)
  \/ \E h \in H : ReadLock(h)
  \/ \E h \in H : GetData(h)

Next == ServiceNext(Handlers, CoreDates, UpstreamResponses)

\* The service under concurrent requests.
Spec == Init /\ [][Next]_vars

NextQuery == ServiceNext(QueryHandlers, AllDates, UpstreamResponses)

\* The service under the requests of one client, with every sample date.
SpecQuery == Init /\ [][NextQuery]_vars

NextFair == ServiceNext(Handlers, {Some(DateSol101)}, {Response100And101, NoAnswer})

\* The service under fair scheduling: a task that can run is run (tokio polls
\* every woken task), and a task queued for the lock is granted it when its
\* turn comes (the lock's wait queue is first in, first out), so a lock step
\* that is possible again and again is taken.
SpecFair ==
  /\ Init
  /\ [][NextFair]_vars
  /\ WF_vars(StoreData)
  /\ WF_vars(UpdateNow)
  /\ WF_vars(StoreStamp)
  /\ SF_vars(WriteLockData)
  /\ SF_vars(WriteLockStamp)
  /\ \A h \in Handlers : SF_vars(ReadLock(h)) /\ WF_vars(GetData(h))

\* The conversion applied to the delta drawn by InitConv.
Convert ==
  /\ convRes = None
  /\ convRes' =
       Some(calculate_no_of_martian_sol_elapsed(CURIOSTY_LANDING_DATE_IN_UNIX_TS + convArg))
  /\ UNCHANGED << serviceVars, convArg, fetchArg, fetchRes >>

InitConv ==
  /\ mainPc = "boot"
  /\ cache = [updated_at |-> 0, data |-> EmptyMap]
  /\ lock = [writer |-> FALSE, readers |-> 0]
  /\ now = 0
  /\ updater = IdleUpdater
  /\ cycles = 0
  /\ lastLog = ""
  /\ handlers = [h \in Handlers |-> IdleHandler]
  /\ gen = [data |-> 0, stamp |-> 0]
  /\ fetched = EmptyMap
  /\ observed = 0
  /\ convArg \in Deltas
  /\ convRes = None
  /\ fetchArg = NoAnswer
  /\ fetchRes = None

NextConv == Convert

\* The conversion alone, over the deltas of Deltas.
SpecConv == InitConv /\ [][NextConv]_vars

\* A raw record of the feed with the given sol and temperatures; a
\* temperature of None is a field the feed left out.
RawRecord(sol, min_temp, max_temp) ==
  [field \in {"id", "terrestrial_date", "sol", "sunrise", "sunset"}
             \cup (IF min_temp = None THEN {} ELSE {"min_temp"})
             \cup (IF max_temp = None THEN {} ELSE {"max_temp"}) |->
     CASE field = "id" -> Rec100.id
       [] field = "terrestrial_date" -> Rec100.terrestrial_date
       [] field = "sol" -> sol
       [] field = "min_temp" -> min_temp[1]
       [] field = "max_temp" -> max_temp[1]
       [] field = "sunrise" -> Rec100.sunrise
       [] field = "sunset" -> Rec100.sunset]

\* The sol and temperature strings of the fetch harness: numbers, strings
\* that are no numbers, and (for the temperatures) left out.
RawSols == { Rec100.sol, Rec101.sol, RecBadSol.sol }
RawTemps == { None, Some(Rec101.min_temp), Some(Rec101.max_temp) }

RawRecords ==
  { RawRecord(sol, min_temp, max_temp) :
      sol \in RawSols, min_temp \in RawTemps, max_temp \in RawTemps }

\* The answers of the fetch harness: up to MaxRecords records.
RawAnswers ==
  { [sent |-> TRUE, soles |-> soles] :
      soles \in UNION { [1..n -> RawRecords] : n \in 0..MaxRecords } }

\* fetch_soles_data() on the answer drawn by InitFetch.
FetchSoles ==
  /\ fetchRes = None
  /\ fetchRes' = Some(fetch_soles_data(fetchArg))
  /\ UNCHANGED << serviceVars, convArg, convRes, fetchArg >>

InitFetch ==
  /\ mainPc = "boot"
  /\ cache = [updated_at |-> 0, data |-> EmptyMap]
  /\ lock = [writer |-> FALSE, readers |-> 0]
  /\ now = 0
  /\ updater = IdleUpdater
  /\ cycles = 0
  /\ lastLog = ""
  /\ handlers = [h \in Handlers |-> IdleHandler]
  /\ gen = [data |-> 0, stamp |-> 0]
  /\ fetched = EmptyMap
  /\ observed = 0
  /\ convArg = 0
  /\ convRes = None
  /\ fetchArg \in RawAnswers
  /\ fetchRes = None

NextFetch == FetchSoles

\* The fetch alone, over the answers of RawAnswers.
SpecFetch == InitFetch /\ [][NextFetch]_vars

(***************************************************************************)
(* Properties.                                                             *)
(***************************************************************************)
\* The cache exists: main has built SharedState.
Constructed == mainPc \in {"serving", "stopped"}

\* Handler h has answered a request whose date parsed, after a lookup.
LookedUp(h) == handlers[h].pc = "done" /\ handlers[h].datetime # None

\* The response of weather for sol in the map m.
ResponseFrom(m, sol) == IF sol \in DOMAIN m THEN Found(m[sol]) ELSE NoContent

\* C1: in every state in which a reader can acquire the cache, the timestamp
\* was written by the same cycle as the map.  (Stated as the claim has it;
\* update writes the two fields under two separate write locks.)
C1_SnapshotAtomic ==
  (mainPc = "serving" /\ CanRead) => gen.stamp = gen.data

\* C2: no reader holds the lock while the writer does, the cached map is
\* always the whole map of one fetch, and every lookup answered from the
\* whole map of the cycle it read.
C2_WholeMapReads ==
  /\ lock.writer => lock.readers = 0
  /\ lock.readers = Cardinality({h \in Handlers : handlers[h].pc = "reading"})
  /\ Constructed => gen.data \in DOMAIN fetched /\ cache.data = fetched[gen.data]
  /\ \A h \in Handlers :
       LookedUp(h) =>
         /\ handlers[h].seen \in DOMAIN fetched
         /\ handlers[h].response =
              ResponseFrom(fetched[handlers[h].seen], handlers[h].sol)

\* Two lookups of sol 101 around a replace: one answered from the old map,
\* one from the new.
C2_Witness ==
  \E h, k \in Handlers :
    /\ LookedUp(h) /\ LookedUp(k)
    /\ handlers[h].sol = 101 /\ handlers[k].sol = 101
    /\ handlers[h].seen = 0 /\ handlers[k].seen = 1
    /\ handlers[h].response.status = 200 /\ handlers[k].response.status = 200
    /\ handlers[h].response # handlers[k].response

\* C3: the step in which a fetch of the updater fails changes neither the
\* cache nor any handler, and logs the error; and no step taken while the
\* updater sleeps or fetches changes the cache.  The only error a response
\* carries is that of the date.
C3_StaleOnFailure ==
  /\ [][ /\ (updater.pc = "fetch" /\ updater'.pc = "sleep") =>
              /\ cache' = cache
              /\ gen' = gen
              /\ handlers' = handlers
              /\ lastLog' = LogUnableToFetch
         /\ updater.pc \in {"sleep", "fetch"} => cache' = cache ]_vars
  /\ [](\A h \in Handlers :
          handlers[h].response.status \in {0, 200, 204, 400}
          /\ (handlers[h].response.status = 400 =>
                handlers[h].response = BadRequest(InvalidDateFormat)))

\* A cycle has failed and a lookup of a sol of the initial map is answered
\* from that map.
C3_Witness ==
  /\ updater.pc = "sleep"
  /\ lastLog = LogUnableToFetch
  /\ cache.data = fetched[0]
  /\ \E h \in Handlers :
       /\ handlers[h].pc = "reading"
       /\ handlers[h].sol \in DOMAIN cache.data

\* C4: once update has returned, the cached map is exactly the map of the
\* cycle's fetch, and the timestamp is the reading of the clock update took.
C4_WholesaleReplace ==
  (lastLog = LogUpdated /\ updater.pc \in {"sleep", "aborted"}) =>
    /\ cache.data = fetched[cycles]
    /\ DOMAIN cache.data = DOMAIN fetched[cycles]
    /\ gen = [data |-> cycles, stamp |-> cycles]
    /\ cache.updated_at = now - 1

\* After a replace, sol 100 of the old map is gone and its lookup misses.
C4_Witness ==
  /\ lastLog = LogUpdated
  /\ updater.pc = "sleep"
  /\ 100 \in DOMAIN fetched[0]
  /\ 100 \notin DOMAIN cache.data
  /\ \E h \in Handlers :
       /\ LookedUp(h)
       /\ handlers[h].sol = 100
       /\ handlers[h].seen = cycles
       /\ handlers[h].response = NoContent

\* C5: a handler has taken a request only if the initial fetch succeeded and
\* filled the cache; if it failed, main has ended: no updater task, no
\* request taken, and no further step.
C5_StartupGating ==
  /\ (\E h \in Handlers : handlers[h].pc # "idle") => Constructed
  /\ Constructed =>
       /\ 0 \in DOMAIN fetched
       /\ gen.data \in DOMAIN fetched
       /\ cache.data = fetched[gen.data]
  /\ mainPc \in {"boot", "failed"} =>
       /\ updater.pc = "unspawned"
       /\ \A h \in Handlers : handlers[h] = IdleHandler
       /\ cache.data = EmptyMap
  /\ mainPc = "failed" => ~ENABLED Next

\* A request answered with a reading, the service running.
C5_Witness ==
  /\ mainPc = "serving"
  /\ \E h \in Handlers : LookedUp(h) /\ handlers[h].response.status = 200

\* C6: while the service runs the updater task is in its loop, whatever
\* its fetches returned: asleep it can wake (until the model's last cycle),
\* fetching it can take every answer of the feed, and the map of a fetch that
\* succeeds after failed ones is the cached map once update has returned.
C6_RefresherSurvives ==
  /\ mainPc = "serving" =>
       /\ updater.pc \in {"sleep", "fetch", "w1", "w1held", "now", "w2", "w2held"}
       /\ (updater.pc = "sleep" /\ cycles < MaxCycles) => ENABLED Wake
       /\ updater.pc = "fetch" =>
            \A response \in UpstreamResponses :
              ENABLED FetchOk(response) \/ ENABLED FetchErr(response)
  /\ (lastLog = LogUnableToFetch /\ updater.pc = "sleep") => mainPc = "serving"
  /\ (lastLog = LogUpdated /\ updater.pc = "sleep") =>
       cycles \in DOMAIN fetched /\ cache.data = fetched[cycles]

\* The first cycle failed, the second succeeded and its map is installed.
C6_Witness ==
  /\ mainPc = "serving"
  /\ cycles = 2
  /\ 1 \notin DOMAIN fetched
  /\ 2 \in DOMAIN fetched
  /\ updater.pc = "sleep"
  /\ lastLog = LogUpdated
  /\ cache.data = fetched[2]
  /\ cache.data # fetched[0]

\* C7: a request with a date is answered 400 InvalidDateFormat exactly when
\* the date does not parse, and 204 "no data" exactly when it parses and its
\* sol is absent from the map the lookup read.
C7_MissVersusError ==
  \A h \in Handlers :
    (handlers[h].pc = "done" /\ handlers[h].date # None) =>
      LET parsed == parse_date_from_string(handlers[h].date[1])
          status == handlers[h].response.status
      IN  /\ status = 400 <=> ~parsed.ok
          /\ status = 400 => handlers[h].response = BadRequest(InvalidDateFormat)
          /\ status = 204 <=>
               /\ parsed.ok
               /\ calculate_no_of_martian_sol_elapsed(parsed.val)
                    \notin DOMAIN fetched[handlers[h].seen]
          /\ status = 204 => handlers[h].response = NoContent
          /\ status \in {200, 204, 400}

\* The date of sol 999 is answered 204 while sols 100 and 101 are cached.
C7_Witness ==
  \E h \in Handlers :
    /\ handlers[h].pc = "done"
    /\ handlers[h].date = Some(DateSol999)
    /\ handlers[h].response.status = 204
    /\ DOMAIN cache.data = {100, 101}

\* C8: a request whose date parses is answered with the reading the map of
\* its lookup stores under the sol of the date, martian_sol_day being that
\* sol, or with "no data" when the map has no such sol.
C8_EndToEndHit ==
  \A h \in Handlers :
    (handlers[h].pc = "done" /\ handlers[h].date # None) =>
      LET parsed   == parse_date_from_string(handlers[h].date[1])
          response == handlers[h].response
      IN  parsed.ok =>
            LET sol      == calculate_no_of_martian_sol_elapsed(parsed.val)
                snapshot == fetched[handlers[h].seen]
            IN  /\ sol \in DOMAIN snapshot =>
                     /\ response.status = 200
                     /\ ParseI64(response.body.martian_sol_day) = Some(sol)
                     /\ response.body.min_temp = RenderTemp(snapshot[sol].min_temp)
                     /\ response.body.max_temp = RenderTemp(snapshot[sol].max_temp)
                     /\ response.body.sunrise = RenderTime(snapshot[sol].sunrise)
                     /\ response.body.sunset = RenderTime(snapshot[sol].sunset)
                /\ sol \notin DOMAIN snapshot => response = NoContent
                /\ (/\ handlers[h].date = Some(DateSol101)
                    /\ snapshot = FetchResult[Response100And101].val) =>
                     response.body =
                       [martian_sol_day |-> << "1", "0", "1" >>,
                        min_temp |-> NotAvailable,
                        max_temp |-> << "-", "8" >>,
                        sunrise |-> << "0", "5", ":", "2", "6", ":", "0", "0" >>,
                        sunset |-> << "1", "7", ":", "2", "0", ":", "0", "0" >>]
                /\ handlers[h].date = Some(DateSol999) => response = NoContent

\* With sols 100 and 101 cached, the date of sol 101 is answered with its
\* reading.
C8_Witness ==
  \E h \in Handlers :
    /\ handlers[h].pc = "done"
    /\ handlers[h].date = Some(DateSol101)
    /\ handlers[h].sol = 101
    /\ DOMAIN fetched[handlers[h].seen] = {100, 101}
    /\ handlers[h].response.status = 200
    /\ handlers[h].response.body.martian_sol_day = << "1", "0", "1" >>

\* C9: the sol k computed for the delta d is the ceiling of d / 88775.245:
\* (k - 1) * 88775.245 < d <= k * 88775.245; 687 days give 669, 0 gives 0,
\* and 2026-02-10T00:00:00+01:00 gives 4804.
C9_CeilingLaw ==
  convRes # None =>
    LET k == convRes[1]
        d == convArg
    IN  /\ (d - k * SolSeconds) * 1000 <= k * SolMillis
        /\ (d - (k - 1) * SolSeconds) * 1000 > (k - 1) * SolMillis
        /\ d = 687 * 86400 => k = 669
        /\ d = 0 => k = 0
        /\ d = 426447780 =>
             /\ k = 4804
             /\ parse_date_from_string(DateNewest) =
                  Ok(CURIOSTY_LANDING_DATE_IN_UNIX_TS + d)

\* The delta of 687 days has been converted to sol 669.
C9_Witness == convArg = 687 * 86400 /\ convRes = Some(669)

\* C10: a date that parses as %Y-%m-%d gives midnight UTC of that day;
\* otherwise one that parses as RFC 3339 gives its instant in UTC; one that
\* parses as neither is answered InvalidDateFormat.
C10_FormatPrecedence ==
  \A h \in Handlers :
    (handlers[h].pc # "idle" /\ handlers[h].date # None) =>
      LET s     == handlers[h].date[1]
          naive == NaiveDateParse(s)
          rfc   == Rfc3339Parse(s)
      IN  /\ naive.ok =>
               handlers[h].datetime =
                 Some(86400 * DaysFromCivil(naive.val.year, naive.val.month,
                                            naive.val.day))
          /\ naive.ok =>
               \A other \in {rfc, Rfc3339Parse(DateZulu), Err("TooShort")} :
                 MatchParses(naive, other) = Ok(handlers[h].datetime[1])
          /\ (~naive.ok /\ rfc.ok) =>
               handlers[h].datetime =
                 Some(86400 * DaysFromCivil(rfc.val.year, rfc.val.month, rfc.val.day)
                      + 3600 * rfc.val.hour + 60 * rfc.val.minute + rfc.val.second
                      - rfc.val.offset)
          /\ (~naive.ok /\ ~rfc.ok) =>
               /\ handlers[h].datetime = None
               /\ handlers[h].response = BadRequest(InvalidDateFormat)
          /\ s = DatePlain => handlers[h].datetime = Some(1771113600)
          /\ s \in {DateZulu, DateOffset} => handlers[h].datetime = Some(1771188120)
          /\ s = DateSlashes => handlers[h].response.status = 400

\* An RFC 3339 date with an offset, taken as its instant in UTC.
C10_Witness ==
  \E h \in Handlers :
    /\ handlers[h].date = Some(DateOffset)
    /\ handlers[h].datetime = Some(1771188120)
    /\ ~NaiveDateParse(DateOffset).ok

\* C11: a fetch does not fail because a temperature is left out or is no
\* integer, nor because a numeric string is no integer: the fetch of every
\* answer of the feed succeeds, and the reading cached for a sol has null for
\* each temperature its record left out or sent as no integer.
C11_LenientCoercion ==
  fetchRes # None =>
    /\ fetchRes[1].ok
    /\ \A i \in 1..Len(fetchArg.soles) :
         LET raw == fetchArg.soles[i]
             sol == ParseI64(raw.sol)
         IN  (sol # None /\ \A j \in (i + 1)..Len(fetchArg.soles) :
                               fetchArg.soles[j].sol # raw.sol) =>
               /\ sol[1] \in DOMAIN fetchRes[1].val
               /\ fetchRes[1].val[sol[1]].min_temp =
                    (IF "min_temp" \in DOMAIN raw THEN ParseI64(raw["min_temp"]) ELSE None)
               /\ fetchRes[1].val[sol[1]].max_temp =
                    (IF "max_temp" \in DOMAIN raw THEN ParseI64(raw["max_temp"]) ELSE None)

\* C12: the step that takes the shutdown signal stops an updater that sleeps,
\* fetches or waits for the lock, there and then and without a change of the
\* cache; after the signal no fetch starts or completes; and once the updater
\* is stopped, the cache and its generations never change again and the
\* write lock is never taken.
C12_Cancellation ==
  /\ [][ (mainPc = "serving" /\ mainPc' = "stopped"
            /\ updater.pc \in {"sleep", "fetch", "w1", "w2"}) =>
           (updater'.pc = "aborted" /\ cache' = cache /\ gen' = gen) ]_vars
  /\ [][ mainPc = "stopped" =>
           (mainPc' = "stopped" /\ cycles' = cycles /\ fetched' = fetched) ]_vars
  /\ [][ updater.pc = "aborted" =>
           (updater' = updater /\ cache' = cache /\ gen' = gen
              /\ ~lock'.writer) ]_vars

\* The updater was stopped during the fetch of its first cycle: the fetch
\* never returned and the cache holds the map of startup.
C12_Witness ==
  /\ mainPc = "stopped"
  /\ updater.pc = "aborted"
  /\ cycles = 1
  /\ lastLog = LogUpdating
  /\ DOMAIN fetched = {0}
  /\ cache.data = fetched[0]
  /\ gen = [data |-> 0, stamp |-> 0]

\* C13: while the updater sleeps or fetches, the write lock is free and no
\* writer is queued, so a read lock is granted at once: a waiting handler can
\* take it and a request that arrives goes straight to its lookup.  The
\* write lock is held only inside update, the first time with the map of
\* the finished fetch in hand.
C13_NoLockWhileFetching ==
  /\ [](updater.pc \in {"unspawned", "sleep", "fetch", "aborted"} => ~lock.writer)
  /\ [](lock.writer =>
          /\ updater.pc \in {"w1held", "w2held"}
          /\ cycles \in DOMAIN fetched
          /\ updater.pc = "w1held" => updater.data = fetched[cycles])
  /\ [](updater.pc \in {"sleep", "fetch"} =>
          \A h \in Handlers : handlers[h].pc = "get" => ENABLED ReadLock(h))
  /\ [][ \A h \in Handlers :
           (/\ updater.pc \in {"sleep", "fetch"}
            /\ handlers[h].pc \in {"idle", "done"}
            /\ handlers'[h] # handlers[h]) =>
             /\ handlers'[h].pc \in {"reading", "done"}
             /\ handlers'[h].pc = "reading" => lock'.readers = lock.readers + 1 ]_vars

\* During the fetch of a cycle one handler is in its lookup and a handler
\* has answered a request from the cache.
C13_Witness ==
  /\ updater.pc = "fetch"
  /\ cycles \notin DOMAIN fetched
  /\ ~lock.writer
  /\ lock.readers = 1
  /\ \E h \in Handlers : handlers[h].pc = "reading"
  /\ \E h \in Handlers : LookedUp(h) /\ handlers[h].response.status = 200

\* C14: a timestamp before the landing is converted like any other: the sol
\* k of a delta d <= 0 is the ceiling of d / 88775.245, which is negative or
\* zero, and zero when -88775.245 < d <= 0; and the sol of no smaller delta is
\* larger (the conversion is non-decreasing, across the landing too).
C14_NegativeDeltas ==
  convRes # None =>
    LET k == convRes[1]
        d == convArg
    IN  /\ d <= 0 =>
             /\ k <= 0
             /\ (d - k * SolSeconds) * 1000 <= k * SolMillis
             /\ (d - (k - 1) * SolSeconds) * 1000 > (k - 1) * SolMillis
             /\ (d + SolSeconds) * 1000 > 0 - SolMillis <=> k = 0
        /\ \A e \in Deltas :
             e <= d =>
               calculate_no_of_martian_sol_elapsed(CURIOSTY_LANDING_DATE_IN_UNIX_TS + e)
                 <= k

\* The delta of 88775 s before the landing, less than one sol, gives sol 0,
\* and one second more gives sol -1.
C14_Witness ==
  /\ convArg = 0 - SolSeconds
  /\ convRes = Some(0)
  /\ calculate_no_of_martian_sol_elapsed(
       CURIOSTY_LANDING_DATE_IN_UNIX_TS - SolSeconds - 1) = 0 - 1

\* C15 as claimed: the error answered for a date that parses as neither
\* format carries the two parse errors, so two dates answered with the same
\* error failed with the same two parse errors.
C15_ErrorCarriesBoth ==
  \A h \in Handlers :
    (handlers[h].pc = "done" /\ handlers[h].response.status = 400) =>
      \A other \in AllDates \ {None} :
        LET mine   == handlers[h].date[1]
            theirs == other[1]
        IN  (/\ ~parse_date_from_string(theirs).ok
             /\ BadRequest(parse_date_from_string(theirs).err) = handlers[h].response) =>
              /\ NaiveDateParse(theirs).err = NaiveDateParse(mine).err
              /\ Rfc3339Parse(theirs).err = Rfc3339Parse(mine).err

\* C15 as amended: the error answered for a date that parses as neither
\* format is the fixed InvalidDateFormat message, whatever the two parse
\* errors are; the two parse errors are written to the log, and only for
\* such a date.
C15_ErrorIsFixedMessage ==
  \A h \in Handlers :
    (handlers[h].pc # "idle" /\ handlers[h].date # None) =>
      LET s     == handlers[h].date[1]
          naive == NaiveDateParse(s)
          rfc   == Rfc3339Parse(s)
      IN  /\ (~naive.ok /\ ~rfc.ok) =>
               /\ handlers[h].response =
                    [status |-> 400,
                     body |-> [error |-> "INVALID_DATE_FORMAT",
                               message |-> InvalidDateFormat]]
               /\ handlers[h].logged =
                    Some([naive_date_err |-> naive.err, rfc3339_date_err |-> rfc.err])
          /\ (naive.ok \/ rfc.ok) => handlers[h].logged = None

\* A date that is no day of the calendar was answered with the fixed
\* message, its two different parse errors logged.
C15_Witness ==
  \E h \in Handlers :
    /\ handlers[h].pc = "done"
    /\ handlers[h].date = Some(DateNoSuchDay)
    /\ handlers[h].response.status = 400
    /\ handlers[h].response.body.message = InvalidDateFormat
    /\ handlers[h].logged =
         Some([naive_date_err |-> "OutOfRange", rfc3339_date_err |-> "TooShort"])

\* C16: the map of a fetch has one entry for each sol of the answer, and it
\* is the reading of the record that comes last among those of that sol.
C16_LastWriteWins ==
  (fetchRes # None /\ fetchRes[1].ok) =>
    LET soles == fetchArg.soles
        map   == fetchRes[1].val
        SolAt(i) == ParseI64(soles[i].sol)[1]
    IN  /\ DOMAIN map = { SolAt(i) : i \in 1..Len(soles) }
        /\ \A i \in 1..Len(soles) :
             (\A j \in (i + 1)..Len(soles) : SolAt(j) # SolAt(i)) =>
               map[SolAt(i)] = DeserializeSoleData(soles[i]).val

\* Two records of sol 100, the first with a minimum of -8 and the second
\* with none: the map has the one entry, with no minimum.
C16_Witness ==
  /\ fetchRes # None
  /\ fetchRes[1].ok
  /\ Len(fetchArg.soles) = 2
  /\ fetchArg.soles[1].sol = Rec100.sol
  /\ fetchArg.soles[2].sol = Rec100.sol
  /\ ParseI64(fetchArg.soles[1].min_temp) = Some(0 - 8)
  /\ ParseI64(fetchArg.soles[2].min_temp) = None
  /\ DOMAIN fetchRes[1].val = {100}
  /\ fetchRes[1].val[100].min_temp = None

\* C19: every entry of the cached map, and of every map a fetch returned,
\* is stored under the sol of its own reading; so the reading answered for a
\* sol has that sol as its martian_sol_day.
C19_KeyConsistency ==
  /\ Constructed => \A s \in DOMAIN cache.data : cache.data[s].sol = s
  /\ \A c \in DOMAIN fetched : \A s \in DOMAIN fetched[c] : fetched[c][s].sol = s
  /\ updater.pc \in {"w1", "w1held"} =>
       \A s \in DOMAIN updater.data : updater.data[s].sol = s
  /\ \A h \in Handlers :
       (handlers[h].pc = "done" /\ handlers[h].response.status = 200
          /\ handlers[h].date # None) =>
         ParseI64(handlers[h].response.body.martian_sol_day) = Some(handlers[h].sol)

\* After a refresh the cache holds sols 101 and 102 under their own keys and
\* a request for sol 101 was answered with the reading of sol 101.
C19_Witness ==
  /\ DOMAIN cache.data = {101, 102}
  /\ gen.data > 0
  /\ \E h \in Handlers :
       /\ handlers[h].pc = "done"
       /\ handlers[h].sol = 101
       /\ handlers[h].seen = gen.data
       /\ handlers[h].response.status = 200
       /\ handlers[h].response.body.martian_sol_day = << "1", "0", "1" >>

\* C17: a lookup reads the map of a cycle no older than the newest cycle
\* whose update had returned when its request came, and no older than the
\* newest cycle a lookup had read by then; the answer is made from that map.
C17_MonotonicReads ==
  /\ observed <= gen.data
  /\ gen.stamp <= gen.data
  /\ \A h \in Handlers :
       /\ handlers[h].pc \in {"get", "reading"} => handlers[h].floor <= gen.data
       /\ LookedUp(h) =>
            /\ handlers[h].floor <= handlers[h].seen
            /\ handlers[h].seen <= observed
            /\ handlers[h].seen \in DOMAIN fetched
            /\ handlers[h].response =
                 ResponseFrom(fetched[handlers[h].seen], handlers[h].sol)

\* A lookup of sol 101 read the map of startup; a request for sol 101 that
\* came after the update of a later cycle had returned was answered from
\* that cycle's map, with another reading.
C17_Witness ==
  \E h1, h2 \in Handlers :
    /\ LookedUp(h1) /\ LookedUp(h2)
    /\ handlers[h1].sol = 101 /\ handlers[h2].sol = 101
    /\ handlers[h1].seen = 0
    /\ handlers[h2].floor > 0
    /\ handlers[h2].seen = handlers[h2].floor
    /\ handlers[h2].seen = gen.stamp
    /\ handlers[h1].response # handlers[h2].response

\* C18: a task suspended at an await holds no guard of the cache lock (the
\* updater asleep, fetching, waiting for either of its write locks, or
\* stopped; a handler waiting for its read lock), so the second write lock
\* of update never waits for the first; and under fair scheduling every
\* update returns (or is dropped at shutdown) and every lookup is answered
\* (or the service has shut down).
C18_NoBlockingForever ==
  /\ [](/\ updater.pc \in {"unspawned", "sleep", "fetch", "w1", "w2", "aborted"}
             => ~lock.writer
        /\ lock.writer => updater.pc \in {"w1held", "w2held"}
        /\ lock.readers =
             Cardinality({h \in Handlers : handlers[h].pc = "reading"}))
  /\ (updater.pc \in {"w1", "w1held", "now", "w2", "w2held"})
       ~> (updater.pc \in {"sleep", "aborted"})
  /\ \A h \in Handlers :
       (handlers[h].pc \in {"get", "reading"})
         ~> (handlers[h].pc = "done" \/ mainPc = "stopped")

\* update waits for its second write lock behind a handler in its lookup,
\* and the other handler waits for a read lock behind update.
C18_Witness ==
  /\ mainPc = "serving"
  /\ updater.pc = "w2"
  /\ ~lock.writer
  /\ \E h1, h2 \in Handlers :
       /\ handlers[h1].pc = "reading"
       /\ handlers[h2].pc = "get"

=============================================================================
